---- MODULE Spec2Model ----
(***************************************************************************)
(* PAYCONNECT backend (src/backend/server.js): the four request handlers   *)
(* start-checkout, payment-webhook, check-status and cancel-transaction,   *)
(* in the Airtable variant (lines 1-270) and the Baserow variant (lines    *)
(* 271-580).  Every handler is an async function: other handlers run only  *)
(* while it is suspended on an await.  Each action below is therefore one  *)
(* segment of a handler: the code from its entry, or from the call it was  *)
(* suspended on, up to and including the next awaited external call        *)
(* (BulkClix, record store, Hubtel); the code after the last call belongs  *)
(* to the segment of that call.                                            *)
(***************************************************************************)
EXTENDS Integers, Sequences, FiniteSets, TLC

VARIABLES
    variant,    \* which of the two servers is running: "Airtable" or "Baserow"
    store,      \* rows of the external table, in creation order
    handlers,   \* the handlers suspended on an await, with their locals
    response,   \* the request answered last, with its response
    nreq,       \* number of requests received
    gwLog,      \* requests issued to the BulkClix momopay endpoint
    smsLog,     \* requests issued to the Hubtel send endpoint
    writes      \* history: every successful write to the record store

vars == <<variant, store, handlers, response, nreq, gwLog, smsLog, writes>>

-----------------------------------------------------------------------------
(* Bounds of the model.                                                    *)

MaxReqs == 2        \* requests received in one run

-----------------------------------------------------------------------------
(* JavaScript values: strings are sequences of characters.                 *)

Undef == [t |-> "undefined"]
NaN == [t |-> "NaN"]
Str(s) == [t |-> "string", v |-> s]
Num(n) == [t |-> "number", v |-> n]

\* a Baserow single-select cell is read back as an option object
SelectOption(s) == [t |-> "option", value |-> s]

\* JavaScript truthiness, as used by `!x`, `x && ...` and `x ? a : b`
Truthy(x) ==
    CASE x.t = "undefined" -> FALSE
      [] x.t = "NaN"       -> FALSE
      [] x.t = "string"    -> x.v # <<>>
      [] x.t = "number"    -> x.v # 0
      [] OTHER             -> TRUE

UpperChars == <<"A","B","C","D","E","F","G","H","I","J","K","L","M",
                "N","O","P","Q","R","S","T","U","V","W","X","Y","Z">>
LowerChars == <<"a","b","c","d","e","f","g","h","i","j","k","l","m",
                "n","o","p","q","r","s","t","u","v","w","x","y","z">>
DigitChars == <<"0","1","2","3","4","5","6","7","8","9">>

LowerChar(c) ==
    IF \E i \in DOMAIN UpperChars : UpperChars[i] = c
    THEN LowerChars[CHOOSE i \in DOMAIN UpperChars : UpperChars[i] = c]
    ELSE c

\* String.prototype.toLowerCase on a sequence of characters
ToLowerCase(s) == [i \in DOMAIN s |-> LowerChar(s[i])]

\* String.prototype.includes
Includes(s, sub) ==
    \E i \in 0..(Len(s) - Len(sub)) : SubSeq(s, i + 1, i + Len(sub)) = sub

IsDigit(c) == \E i \in DOMAIN DigitChars : DigitChars[i] = c
DigitValue(c) == (CHOOSE i \in DOMAIN DigitChars : DigitChars[i] = c) - 1

RECURSIVE Digits(_)
\* the decimal numeral of a non-negative integer (string concatenation
\* "T" + n converts n this way)
Digits(n) ==
    IF n < 10 THEN <<DigitChars[n + 1]>>
    ELSE Digits(n \div 10) \o <<DigitChars[(n % 10) + 1]>>

RECURSIVE DecimalValue(_)
DecimalValue(s) ==
    IF s = <<>> THEN 0
    ELSE 10 * DecimalValue(SubSeq(s, 1, Len(s) - 1)) + DigitValue(s[Len(s)])

\* Number(x), on numbers and on strings of letters and digits
ToNumber(x) ==
    CASE x.t = "number" -> x
      [] x.t = "string" ->
            IF \A i \in DOMAIN x.v : IsDigit(x.v[i])
            THEN Num(DecimalValue(x.v)) ELSE NaN
      [] OTHER -> NaN

IsNaN(x) == x.t = "NaN"

Range(f) == {f[i] : i \in DOMAIN f}

-----------------------------------------------------------------------------
(* Literals of the source.                                                 *)

Initiated == <<"I","n","i","t","i","a","t","e","d">>
Pending == <<"P","e","n","d","i","n","g">>
Failed == <<"F","a","i","l","e","d">>
Unknown == <<"U","n","k","n","o","w","n">>
SuccessLower == <<"s","u","c","c","e","s","s">>
ExpressTag == <<"(","E","x","p","r","e","s","s",")">>
NormalTimeframe == "30 minutes to 4 hours"
ExpressTimeframe == "5 to 30 minutes"
CancelNote == Str(<<"Cancelled by user on frontend.">>)

-----------------------------------------------------------------------------
(* Inputs.                                                                 *)

Phone1 == Str(<<"0","5","5">>)
Phone2 == Str(<<"0","2","4">>)
Recipient1 == Str(<<"0","5","9">>)
PlanExpress == Str(<<"1","G","B"," ">> \o ExpressTag)
PlanNormal == Str(<<"1","G","B"," ","(","N","o","r","m","a","l",")">>)
MTN == Str(<<"M","T","N">>)

\* values of Math.floor(Math.random() * 1e15)
RandomInts == {7, 42}

\* Order IDs that requests to the webhook, check-status and cancel carry
OrderIds == {Str(<<"T","7">>), Str(<<"T","9">>)}

Falsy(x) == ~Truthy(x)

RequiredStartFields == {"phone", "recipient", "dataPlan", "amount", "network"}

BaseStartBody(dataPlan) ==
    [email |-> Undef, phone |-> Phone1, recipient |-> Recipient1,
     dataPlan |-> dataPlan, amount |-> Num(10), network |-> MTN]

\* bodies of POST /api/start-checkout: complete ones, and ones in which one
\* required field is absent, empty or zero
StartBodies ==
    {BaseStartBody(PlanNormal)}
    \cup {[BaseStartBody(PlanNormal) EXCEPT ![f] = Undef] : f \in RequiredStartFields}
    \cup {[BaseStartBody(PlanNormal) EXCEPT !.dataPlan = Str(<<>>)],
          [BaseStartBody(PlanNormal) EXCEPT !.amount = Num(0)]}

-----------------------------------------------------------------------------
(* The record store.                                                       *)

\* how the table hands back a Status cell: Airtable a plain string, Baserow
\* a single-select option object
StatusCell(v, s) == IF v = "Baserow" THEN SelectOption(s) ELSE s

\* the table is not empty when the server starts; the model puts one row in
\* it: one that an earlier run of start-checkout created, or one that was
\* entered without a Data Plan
PriorRow(v, dataPlan) ==
    [id |-> 1, orderId |-> Str(<<"T","9">>), phone |-> Phone2, email |-> Undef,
     recipient |-> Recipient1, dataPlan |-> dataPlan, amount |-> Num(5),
     status |-> StatusCell(v, Str(Initiated)),
     bulkclix |-> [initiation |-> Undef],
     hubtelResponse |-> Undef, hubtelSent |-> FALSE, notes |-> Undef, by |-> 0]

\* rows whose Order ID equals the identifier, in table order:
\* filterByFormula `{Order ID} = '...'` and filter__Order ID__equal
Matching(tid) == {i \in DOMAIN store : store[i].orderId = tid}
Min(S) == CHOOSE i \in S : \A j \in S : i <= j

-----------------------------------------------------------------------------
(* Requests.                                                               *)

NewReq(id, op, body) ==
    [id |-> id, op |-> op, body |-> body, pc |-> "new", steps |-> <<>>,
     transaction_id |-> Undef, apiData |-> Undef, record |-> Undef, row |-> 0,
     dataPlan |-> Undef, recipient |-> Undef, orderStatus |-> Undef,
     amount |-> Undef, code |-> 0, ok |-> FALSE, data |-> Undef]

\* res.status(code).json({ok, data}); the record the handler read goes with
\* the handler
Respond(q, code, ok, data) ==
    [q EXCEPT !.pc = "done", !.record = Undef, !.code = code, !.ok = ok, !.data = data]

Step(q, name) == [q EXCEPT !.steps = Append(@, name)]

NoRequest == Respond(NewReq(0, "none", Undef), 0, FALSE, Undef)

CanReceive == nreq < MaxReqs

\* a request arrives and its handler runs to its first await or to its answer
Receive(q) ==
    /\ nreq' = nreq + 1
    /\ IF q.pc = "done"
       THEN response' = q /\ UNCHANGED handlers
       ELSE handlers' = handlers \cup {q} /\ UNCHANGED response

\* the handler q runs on, as g, to its next await or to its answer
Resume(q, g) ==
    /\ UNCHANGED nreq
    /\ IF g.pc = "done"
       THEN response' = g /\ handlers' = handlers \ {q}
       ELSE handlers' = (handlers \ {q}) \cup {g} /\ UNCHANGED response

Init ==
    /\ variant \in {"Airtable", "Baserow"}
    /\ store \in {<<PriorRow(variant, p)>> : p \in {PlanExpress, Undef}}
    /\ handlers = {}
    /\ response = NoRequest
    /\ nreq = 0
    /\ gwLog = <<>>
    /\ smsLog = <<>>
    /\ writes = {}

-----------------------------------------------------------------------------
(* POST /api/start-checkout                                                *)

\* faulty variant: the check forgets `network`
StartMissingFieldsNoNetwork(b) ==
    \/ Falsy(b.phone)
    \/ Falsy(b.recipient)
    \/ Falsy(b.dataPlan)
    \/ Falsy(b.amount)

StartMissingFields(b) ==
    \/ Falsy(b.phone)
    \/ Falsy(b.recipient)
    \/ Falsy(b.dataPlan)
    \/ Falsy(b.amount)
    \/ Falsy(b.network)

\* faulty variant: the prefix is left out
GenerateTransactionIdNoPrefix(n) == Str(Digits(n))

\* "T" + Math.floor(Math.random() * 1e15)
GenerateTransactionId(n) == Str(<<"T">> \o Digits(n))

\* body of the momopay request
MomoRequest(r, b, tid) ==
    [req |-> r, amount |-> b.amount, phone_number |-> b.phone,
     network |-> b.network, transaction_id |-> tid]

ApiData(tid) == [t |-> "object", transaction_id |-> tid]

\* what `await axios.post(momopay)` yields: it throws (network error, timeout
\* or non-2xx answer), or response.data.data is absent, lacks an identifier,
\* echoes the Order ID, or carries an identifier of the gateway's own
GatewayReplies(tid) ==
    {[threw |-> TRUE, data |-> Undef]} \cup
    {[threw |-> FALSE, data |-> d] :
        d \in {Undef, ApiData(Undef), ApiData(tid), ApiData(Str(<<"B","1">>))}}

\* faulty variant: the identifier of the answer is not looked at
ApiDataInvalidNoIdCheck(apiData) == Falsy(apiData)

ApiDataInvalid(apiData) == Falsy(apiData) \/ Falsy(apiData.transaction_id)

\* the handler after the gateway call, up to the create call
AfterGateway(q, reply) ==
    IF reply.threw
    THEN Respond(Step(q, "gateway.error"), 500, FALSE, Undef)
    ELSE LET g == [Step(q, "gateway.reply") EXCEPT !.apiData = reply.data]
         IN  IF ApiDataInvalid(reply.data)
             THEN Respond(g, 500, FALSE, Undef)
             ELSE [g EXCEPT !.pc = "create"]

\* the handler from its entry to `await` of the record-store create call
StartCheckout(b) ==
    /\ CanReceive
    /\ LET q == NewReq(nreq + 1, "start", b)
       IN  IF StartMissingFields(b)
           THEN /\ Receive(Respond(q, 400, FALSE, Undef))
                /\ UNCHANGED gwLog
           ELSE \E n \in RandomInts :
                   LET tid == GenerateTransactionId(n)
                   IN  /\ gwLog' = Append(gwLog, MomoRequest(q.id, b, tid))
                       /\ \E reply \in GatewayReplies(tid) :
                             Receive(AfterGateway([q EXCEPT !.transaction_id = tid], reply))
    /\ UNCHANGED <<variant, store, smsLog, writes>>

\* fields of the row created by start-checkout
CreateFields(q) ==
    [id |-> Len(store) + 1, orderId |-> q.transaction_id,
     phone |-> q.body.phone, email |-> q.body.email,
     recipient |-> q.body.recipient, dataPlan |-> q.body.dataPlan,
     amount |-> q.body.amount, status |-> StatusCell(variant, Str(Initiated)),
     bulkclix |-> [initiation |-> q.apiData],
     hubtelResponse |-> Undef, hubtelSent |-> FALSE, notes |-> Undef, by |-> q.id]

StartResponseData(q) ==
    [t |-> "object", transaction_id |-> q.apiData.transaction_id,
     status |-> Str(Initiated)]

\* the create call succeeds and the handler answers
CreateRecord(q) ==
    /\ q.op = "start" /\ q.pc = "create"
    /\ store' = Append(store, CreateFields(q))
    /\ writes' = writes \cup {[req |-> q.id, row |-> Len(store) + 1, kind |-> "create",
                               before |-> Undef]}
    /\ Resume(q, Respond(Step(q, "create.ok"), 200, TRUE, StartResponseData(q)))
    /\ UNCHANGED <<variant, gwLog, smsLog>>

\* what the handler answers when the create call throws: the Airtable
\* variant falls into the outer catch, the Baserow variant swallows the error
CreateFailureResponse(v, q) ==
    IF v = "Airtable"
    THEN Respond(q, 500, FALSE, Undef)
    ELSE Respond(q, 200, TRUE, StartResponseData(q))

CreateRecordError(q) ==
    /\ q.op = "start" /\ q.pc = "create"
    /\ Resume(q, CreateFailureResponse(variant, Step(q, "create.error")))
    /\ UNCHANGED <<variant, store, gwLog, smsLog, writes>>

-----------------------------------------------------------------------------
(* POST /api/payment-webhook                                               *)

BaseWebhookBody(tid) ==
    [amount |-> Num(10), status |-> Str(SuccessLower),
     transaction_id |-> tid, phone_number |-> Phone1]

RequiredWebhookFields == {"amount", "status", "transaction_id", "phone_number"}

\* bodies of the webhook: the gateway's report for the Order ID of a row that
\* is in the table from the start, with the amount as a number, a numeral or
\* a word, the status in several spellings or not a string at all, or one
\* field absent; and reports for an Order ID that start-checkout may generate
WebhookBodies ==
    LET T9 == Str(<<"T","9">>)
        T7 == Str(<<"T","7">>)
        word == Str(<<"a","b","c">>)
        failed == Str(<<"f","a","i","l","e","d">>)
    IN  {[BaseWebhookBody(T9) EXCEPT !.amount = a] : a \in {Str(<<"2","5">>), word}}
        \cup {[BaseWebhookBody(T9) EXCEPT !.status = s] :
                s \in {Str(SuccessLower), Str(<<"S","u","c","c","e","s","s">>),
                       failed, Num(1)}}
        \cup {[BaseWebhookBody(T9) EXCEPT !.amount = word, !.status = Num(1)]}
        \cup {[BaseWebhookBody(T9) EXCEPT ![f] = Undef] : f \in RequiredWebhookFields}
        \cup {BaseWebhookBody(T7),
              [BaseWebhookBody(T7) EXCEPT !.status = failed],
              [BaseWebhookBody(T7) EXCEPT !.amount = word]}

\* faulty variant: the check forgets `phone_number`
WebhookMissingFieldsNoPhone(b) ==
    \/ Falsy(b.transaction_id)
    \/ Falsy(b.amount)
    \/ Falsy(b.status)

WebhookMissingFields(b) ==
    \/ Falsy(b.transaction_id)
    \/ Falsy(b.phone_number)
    \/ Falsy(b.amount)
    \/ Falsy(b.status)

\* faulty variant: the comparison is case-sensitive
OrderStatusCaseSensitive(status) ==
    IF status.v = SuccessLower THEN Str(Pending) ELSE status

\* status.toLowerCase() === "success" ? "Pending" : status
OrderStatus(status) ==
    IF ToLowerCase(status.v) = SuccessLower THEN Str(Pending) ELSE status

\* faulty variant: an unknown Order ID is answered 404
WebhookNotFound404(q) == Respond(q, 404, FALSE, Undef)

\* answer to a delivery whose Order ID matches no row
WebhookNotFound(q) == Respond(q, 200, FALSE, Undef)

\* faulty variant: a delivery is turned away while another delivery for the
\* same record is being handled
WebhookFoundExclusive(q, record) ==
    IF \E h \in handlers : h.op = "webhook" /\ h.row = record.id
    THEN Respond(q, 409, FALSE, Undef)
    ELSE LET g == [q EXCEPT !.record = record,
                            !.row = record.id,
                            !.dataPlan = record.dataPlan,
                            !.recipient = record.recipient]
         IN  IF q.body.status.t # "string"
             THEN Respond(g, 500, FALSE, Undef)
             ELSE LET h == [g EXCEPT !.orderStatus = OrderStatus(q.body.status),
                                     !.amount = ToNumber(q.body.amount)]
                  IN  IF IsNaN(h.amount)
                      THEN Respond(h, 400, FALSE, Undef)
                      ELSE [h EXCEPT !.pc = "update1"]

\* the handler from the record it found to the first update call
WebhookFound(q, record) ==
    LET g == [q EXCEPT !.record = record,
                       !.row = record.id,
                       !.dataPlan = record.dataPlan,
                       !.recipient = record.recipient]
    IN  IF q.body.status.t # "string"
        THEN Respond(g, 500, FALSE, Undef)      \* toLowerCase is not a function
        ELSE LET h == [g EXCEPT !.orderStatus = OrderStatus(q.body.status),
                                !.amount = ToNumber(q.body.amount)]
             IN  IF IsNaN(h.amount)
                 THEN Respond(h, 400, FALSE, Undef)
                 ELSE [h EXCEPT !.pc = "update1"]

\* the handler from its entry to `await` of the first update call
PaymentWebhook(b) ==
    /\ CanReceive
    /\ LET q == NewReq(nreq + 1, "webhook", b)
       IN  IF WebhookMissingFields(b)
           THEN Receive(Respond(q, 400, FALSE, Undef))
           ELSE \/ Receive(Respond(Step(q, "find.error"), 500, FALSE, Undef))
                \/ LET found == Matching(b.transaction_id)
                       g == Step(q, "find.ok")
                   IN  Receive(IF found = {}
                               THEN WebhookNotFound(g)
                               ELSE WebhookFound(g, store[Min(found)]))
    /\ UNCHANGED <<variant, store, gwLog, smsLog, writes>>

\* faulty variant: the first update also stores the payer's phone number
WebhookUpdateFieldsWithPhone(q, row) ==
    [row EXCEPT !.amount = q.amount,
                !.status = StatusCell(variant, q.orderStatus),
                !.bulkclix = [webhook |-> q.body],
                !.phone = q.body.phone_number]

\* fields written by the first update
WebhookUpdateFields(q, row) ==
    [row EXCEPT !.amount = q.amount,
                !.status = StatusCell(variant, q.orderStatus),
                !.bulkclix = [webhook |-> q.body]]

\* faulty variant: the SMS is sent whatever the status
SendsSmsAlways(orderStatus) == TRUE

SendsSms(orderStatus) == orderStatus = Str(Pending)

\* the first update succeeds; the handler answers or goes on to the SMS
WebhookUpdate(q) ==
    /\ q.op = "webhook" /\ q.pc = "update1"
    /\ store' = [store EXCEPT ![q.row] = WebhookUpdateFields(q, @)]
    /\ writes' = writes \cup {[req |-> q.id, row |-> q.row, kind |-> "update1",
                               before |-> store[q.row].status]}
    /\ LET g == Step(q, "update1.ok")
       IN  Resume(q, IF SendsSms(q.orderStatus)
                     THEN [g EXCEPT !.pc = "sms"]
                     ELSE Respond(g, 200, TRUE, Undef))
    /\ UNCHANGED <<variant, gwLog, smsLog>>

WebhookUpdateError(q) ==
    /\ q.op = "webhook" /\ q.pc = "update1"
    /\ Resume(q, Respond(Step(q, "update1.error"), 500, FALSE, Undef))
    /\ UNCHANGED <<variant, store, gwLog, smsLog, writes>>

\* faulty variant: the tag is looked for in lower case
DeliveryTimeframeLowerTag(dataPlan) ==
    IF Truthy(dataPlan) /\ Includes(dataPlan.v, ToLowerCase(ExpressTag))
    THEN ExpressTimeframe
    ELSE NormalTimeframe

DeliveryTimeframe(dataPlan) ==
    IF Truthy(dataPlan) /\ Includes(dataPlan.v, ExpressTag)
    THEN ExpressTimeframe
    ELSE NormalTimeframe

\* the variable parts of smsContent and the `to` parameter of the request
SmsRequest(q) ==
    [req |-> q.id, row |-> q.row, to |-> q.body.phone_number,
     dataPlan |-> q.dataPlan, recipient |-> q.recipient,
     timeframe |-> DeliveryTimeframe(q.dataPlan),
     orderId |-> q.body.transaction_id]

\* faulty variant: a record already marked as notified gets no second SMS
HubtelSendOnce(q) ==
    /\ q.op = "webhook" /\ q.pc = "sms"
    /\ IF store[q.row].hubtelSent
       THEN /\ UNCHANGED smsLog
            /\ Resume(q, Respond(q, 200, TRUE, Undef))
       ELSE /\ smsLog' = Append(smsLog, SmsRequest(q) @@ [sent |-> TRUE])
            /\ Resume(q, [Step(q, "sms.ok") EXCEPT !.pc = "update2"])
    /\ UNCHANGED <<variant, store, gwLog, writes>>

\* the Hubtel call succeeds
HubtelSend(q) ==
    /\ q.op = "webhook" /\ q.pc = "sms"
    /\ smsLog' = Append(smsLog, SmsRequest(q) @@ [sent |-> TRUE])
    /\ Resume(q, [Step(q, "sms.ok") EXCEPT !.pc = "update2"])
    /\ UNCHANGED <<variant, store, gwLog, writes>>

\* faulty variant: a failed send is swallowed and the handler goes on
HubtelSendErrorSwallowed(q) ==
    /\ q.op = "webhook" /\ q.pc = "sms"
    /\ smsLog' = Append(smsLog, SmsRequest(q) @@ [sent |-> FALSE])
    /\ Resume(q, [Step(q, "sms.error") EXCEPT !.pc = "update2"])
    /\ UNCHANGED <<variant, store, gwLog, writes>>

\* the Hubtel call throws
HubtelSendError(q) ==
    /\ q.op = "webhook" /\ q.pc = "sms"
    /\ smsLog' = Append(smsLog, SmsRequest(q) @@ [sent |-> FALSE])
    /\ Resume(q, Respond(Step(q, "sms.error"), 500, FALSE, Undef))
    /\ UNCHANGED <<variant, store, gwLog, writes>>

\* fields written by the second update
HubtelUpdateFields(q, row) ==
    [row EXCEPT !.hubtelResponse = [sms |-> q.id], !.hubtelSent = TRUE]

HubtelUpdate(q) ==
    /\ q.op = "webhook" /\ q.pc = "update2"
    /\ store' = [store EXCEPT ![q.row] = HubtelUpdateFields(q, @)]
    /\ writes' = writes \cup {[req |-> q.id, row |-> q.row, kind |-> "update2",
                               before |-> store[q.row].status]}
    /\ Resume(q, Respond(Step(q, "update2.ok"), 200, TRUE, Undef))
    /\ UNCHANGED <<variant, gwLog, smsLog>>

\* faulty variant: a failed second update is swallowed
HubtelUpdateErrorSwallowed(q) ==
    /\ q.op = "webhook" /\ q.pc = "update2"
    /\ Resume(q, Respond(Step(q, "update2.error"), 200, TRUE, Undef))
    /\ UNCHANGED <<variant, store, gwLog, smsLog, writes>>

HubtelUpdateError(q) ==
    /\ q.op = "webhook" /\ q.pc = "update2"
    /\ Resume(q, Respond(Step(q, "update2.error"), 500, FALSE, Undef))
    /\ UNCHANGED <<variant, store, gwLog, smsLog, writes>>

-----------------------------------------------------------------------------
(* GET /api/check-status/:transaction_id                                   *)

\* faulty variant: the option object is returned as it is
StatusOfRaw(v, record) == record.status

\* the status the handler reads off the record: record.get("Status") in the
\* Airtable variant, the option's value (or 'Unknown') in the Baserow variant
StatusOf(v, record) ==
    IF v = "Airtable"
    THEN record.status
    ELSE IF Truthy(record.status) THEN record.status.value ELSE Str(Unknown)

CheckStatusData(status, tid) ==
    [t |-> "object", status |-> status, transaction_id |-> tid]

\* answer to a check-status request whose Order ID matches no row
CheckNotFound(q) == Respond(q, 404, FALSE, Undef)

CheckStatus(tid) ==
    /\ CanReceive
    /\ LET q == [NewReq(nreq + 1, "check", [transaction_id |-> tid])
                   EXCEPT !.transaction_id = tid]
       IN  \/ Receive(Respond(Step(q, "find.error"), 500, FALSE, Undef))
           \/ LET found == Matching(tid)
                  g == Step(q, "find.ok")
              IN  Receive(IF found = {}
                          THEN CheckNotFound(g)
                          ELSE Respond([g EXCEPT !.row = store[Min(found)].id], 200, TRUE,
                                  CheckStatusData(StatusOf(variant, store[Min(found)]), tid)))
    /\ UNCHANGED <<variant, store, gwLog, smsLog, writes>>

-----------------------------------------------------------------------------
(* POST /api/cancel-transaction/:transaction_id                            *)

\* faulty variant: an unknown Order ID is acknowledged as the webhook does
CancelNotFound200(q) == Respond(q, 200, FALSE, Undef)

\* answer to a cancel request whose Order ID matches no row
CancelNotFound(q) == Respond(q, 404, FALSE, Undef)

\* the handler from its entry to `await` of the update call
CancelTransaction(tid) ==
    /\ CanReceive
    /\ LET q == [NewReq(nreq + 1, "cancel", [transaction_id |-> tid])
                   EXCEPT !.transaction_id = tid]
       IN  \/ Receive(Respond(Step(q, "find.error"), 500, FALSE, Undef))
           \/ LET found == Matching(tid)
                  g == Step(q, "find.ok")
              IN  Receive(IF found = {}
                          THEN CancelNotFound(g)
                          ELSE [g EXCEPT !.row = store[Min(found)].id, !.pc = "update"])
    /\ UNCHANGED <<variant, store, gwLog, smsLog, writes>>

\* faulty variant: only a transaction that is still Initiated is cancelled
CancelFieldsOnlyInitiated(v, row) ==
    IF row.status # StatusCell(v, Str(Initiated))
    THEN row
    ELSE [row EXCEPT !.status = StatusCell(v, Str(Failed))]

\* faulty variant: cancel also takes back the notification mark
CancelFieldsResetsSent(v, row) ==
    [row EXCEPT !.status = StatusCell(v, Str(Failed)),
                !.hubtelResponse = Undef, !.hubtelSent = FALSE]

\* fields written by cancel: Status, and Notes in the Airtable variant
CancelFields(v, row) ==
    IF v = "Airtable"
    THEN [row EXCEPT !.status = StatusCell(v, Str(Failed)), !.notes = CancelNote]
    ELSE [row EXCEPT !.status = StatusCell(v, Str(Failed))]

CancelUpdate(q) ==
    /\ q.op = "cancel" /\ q.pc = "update"
    /\ store' = [store EXCEPT ![q.row] = CancelFields(variant, @)]
    /\ writes' = writes \cup {[req |-> q.id, row |-> q.row, kind |-> "cancel",
                               before |-> store[q.row].status]}
    /\ Resume(q, Respond(Step(q, "update.ok"), 200, TRUE, Undef))
    /\ UNCHANGED <<variant, gwLog, smsLog>>

CancelUpdateError(q) ==
    /\ q.op = "cancel" /\ q.pc = "update"
    /\ Resume(q, Respond(Step(q, "update.error"), 500, FALSE, Undef))
    /\ UNCHANGED <<variant, store, gwLog, smsLog, writes>>

-----------------------------------------------------------------------------

Next ==
    \/ \E b \in StartBodies : StartCheckout(b)
    \/ \E q \in handlers : CreateRecord(q)
    \/ \E q \in handlers : CreateRecordError(q)
    \/ \E b \in WebhookBodies : PaymentWebhook(b)
    \/ \E q \in handlers : WebhookUpdate(q)
    \/ \E q \in handlers : WebhookUpdateError(q)
    \/ \E q \in handlers : HubtelSend(q)
    \/ \E q \in handlers : HubtelSendError(q)
    \/ \E q \in handlers : HubtelUpdate(q)
    \/ \E q \in handlers : HubtelUpdateError(q)
    \/ \E tid \in OrderIds : CheckStatus(tid)
    \/ \E tid \in OrderIds : CancelTransaction(tid)
    \/ \E q \in handlers : CancelUpdate(q)
    \/ \E q \in handlers : CancelUpdateError(q)

Spec == Init /\ [][Next]_vars

-----------------------------------------------------------------------------
(* Vocabulary of the properties.                                           *)

\* the requests the state knows: those being handled and the one answered last
Known == handlers \cup {response}
Starts == {q \in Known : q.op = "start"}
Webhooks == {q \in Known : q.op = "webhook"}
Checks == {q \in Known : q.op = "check"}
Cancels == {q \in Known : q.op = "cancel"}

Done(q) == q.pc = "done"
Did(q, name) == name \in Range(q.steps)
Answered(q, code, ok) == Done(q) /\ q.code = code /\ q.ok = ok

RowsBy(q) == {i \in DOMAIN store : store[i].by = q.id}
WritesBy(q) == {w \in writes : w.req = q.id}
SmsBy(q) == {i \in DOMAIN smsLog : smsLog[i].req = q.id}
GwBy(q) == {i \in DOMAIN gwLog : gwLog[i].req = q.id}

\* the Status a row holds, whichever way the table represents it
StoredStatus(row) == IF row.status.t = "option" THEN row.status.value ELSE row.status

\* rows of the table with the given Order ID, and the first of them
RowsWithOrderId(tid) == {i \in DOMAIN store : store[i].orderId = tid}
FirstRow(tid) == CHOOSE i \in RowsWithOrderId(tid) : \A j \in RowsWithOrderId(tid) : i <= j

\* the request received in this step, after the step
Arrived == CHOOSE q \in handlers' \cup {response'} : q.id = nreq + 1
Arrives(op) == nreq' = nreq + 1 /\ Arrived.op = op

\* the request answered in this step
Answers(op) == response'.id # response.id /\ response'.op = op

\* the handler q after this step
After(q) == CHOOSE g \in handlers' \cup {response'} : g.id = q.id

IsOrderIdForm(x) ==
    /\ x.t = "string"
    /\ Len(x.v) >= 2
    /\ x.v[1] = "T"
    /\ \A i \in 2..Len(x.v) : x.v[i] \in {"0","1","2","3","4","5","6","7","8","9"}

EqualsIgnoringCase(s, u) ==
    /\ Len(s) = Len(u)
    /\ \A i \in DOMAIN s : LowerChar(s[i]) = LowerChar(u[i])

\* the status a delivery is to store
DerivedStatus(status) ==
    IF EqualsIgnoringCase(status.v, <<"s","u","c","c","e","s","s">>)
    THEN Str(<<"P","e","n","d","i","n","g">>)
    ELSE status

GatewayGaveId(q) ==
    /\ "gateway.reply" \in Range(q.steps)
    /\ q.apiData.t = "object"
    /\ q.apiData.transaction_id.t = "string"
    /\ q.apiData.transaction_id.v # <<>>

-----------------------------------------------------------------------------
(* Initiate Checkout                                                       *)

\* this step appended exactly one row to the table, created by q, with q's
\* Order ID, of the form T<digits>, and Status Initiated
CreatedOneInitiated(q) ==
    /\ Len(store') = Len(store) + 1
    /\ \A i \in DOMAIN store : store'[i] = store[i]
    /\ LET row == store'[Len(store')]
       IN  /\ row.by = q.id
           /\ row.orderId = q.transaction_id
           /\ IsOrderIdForm(row.orderId)
           /\ StoredStatus(row) = Str(<<"I","n","i","t","i","a","t","e","d">>)

\* C1 as stated: whenever an initiate request whose gateway call returned a
\* transaction identifier completes, the table holds exactly one new row for
\* its Order ID, with Status Initiated and an Order ID of the form T<digits>.
C1_Original ==
    [][(Answers("start") /\ GatewayGaveId(response'))
       => CreatedOneInitiated(response')]_vars

\* C1 amended: the same, for requests whose record-store create call succeeded.
C1_InitiateCreatesOneRecord ==
    [][(Answers("start") /\ GatewayGaveId(response')
          /\ "create.ok" \in Range(response'.steps))
       => CreatedOneInitiated(response')]_vars

C1_Witness ==
    /\ response.op = "start"
    /\ Answered(response, 200, TRUE) /\ Did(response, "create.ok")
    /\ \E i \in RowsBy(response) :
          /\ store[i].orderId = Str(<<"T","4","2">>)
          /\ StoredStatus(store[i]) = Str(Initiated)

\* C2: an initiate request with phone, recipient, dataPlan, amount or network
\* absent or empty is answered 400, and it made no downstream call: no gateway
\* request, no row created, no row written.
C2_InvalidStartRejected ==
    \A q \in Starts :
       (\E f \in RequiredStartFields : q.body[f] \in {Undef, Str(<<>>)})
       => /\ Answered(q, 400, FALSE)
          /\ q.steps = <<>>
          /\ GwBy(q) = {} /\ RowsBy(q) = {} /\ WritesBy(q) = {}

C2_Witness ==
    \E q \in Starts : q.body.network = Undef /\ Answered(q, 400, FALSE)

GatewayFailed(q) ==
    \/ "gateway.error" \in Range(q.steps)
    \/ "gateway.reply" \in Range(q.steps) /\ ~GatewayGaveId(q)

\* C3: an initiate request whose gateway call failed, or whose gateway answer
\* carries no transaction identifier, is answered 500 and has written nothing:
\* no row of the table was created by it.
C3_GatewayFailureWritesNothing ==
    \A q \in Starts :
       GatewayFailed(q)
       => /\ Answered(q, 500, FALSE)
          /\ RowsBy(q) = {} /\ WritesBy(q) = {}

C3_Witness ==
    \E q \in Starts :
       /\ Did(q, "gateway.reply") /\ q.apiData = ApiData(Undef)
       /\ Answered(q, 500, FALSE) /\ GwBy(q) # {}

\* C4 as stated: an initiate request whose gateway call succeeded and whose
\* record-store create call failed still gets the success response (200,
\* ok:true, status Initiated), and no row exists for it.
C4_CreateFailureStillSucceeds ==
    \A q \in Starts :
       Did(q, "create.error")
       => /\ Answered(q, 200, TRUE)
          /\ q.data.t = "object"
          /\ q.data.status = Str(<<"I","n","i","t","i","a","t","e","d">>)
          /\ RowsBy(q) = {}

-----------------------------------------------------------------------------
(* Handle Payment Webhook                                                  *)

AllPresent(b) == \A f \in RequiredWebhookFields : b[f] # Undef
NumericAmount(b) ==
    \/ b.amount.t = "number"
    \/ b.amount.t = "string" /\ \A i \in DOMAIN b.amount.v : IsDigit(b.amount.v[i])

\* the first update of delivery q is applied in this step
FirstUpdateBy(q) ==
    /\ q.op = "webhook"
    /\ ~Did(q, "update1.ok")
    /\ "update1.ok" \in Range(After(q).steps)

\* C5: when the first update of a delivery (four fields present, numeric
\* amount, existing record) is applied, the Status stored in the record is
\* 'Pending' if the incoming status equals 'success' ignoring case and the
\* incoming status unchanged otherwise, whatever the Status was before.
C5_WebhookStoresDerivedStatus ==
    [][\A q \in handlers :
          FirstUpdateBy(q)
          => /\ AllPresent(q.body) /\ NumericAmount(q.body)
             /\ RowsWithOrderId(q.body.transaction_id) # {}
             /\ StoredStatus(store'[FirstRow(q.body.transaction_id)])
                   = DerivedStatus(q.body.status)]_vars

\* a delivery turned a record that a cancel had set to Failed into Pending
C5_Witness ==
    \E w \in writes :
       /\ w.kind = "update1"
       /\ w.before \in {Str(Failed), SelectOption(Str(Failed))}
       /\ StoredStatus(store[w.row]) = Str(Pending)
       /\ store[w.row].bulkclix.webhook.status = Str(<<"S","u","c","c","e","s","s">>)

\* C6: a delivery attempts an SMS send exactly if it found a record, passed
\* validation, completed the status update and derived 'Pending' (a delivery
\* suspended on the send call has not attempted it yet); it attempts at most
\* one; and no request to another route attempts any.
C6_SmsIffPending ==
    /\ \A q \in Webhooks :
          /\ SmsBy(q) # {}
             => /\ AllPresent(q.body) /\ NumericAmount(q.body)
                /\ Did(q, "find.ok") /\ Did(q, "update1.ok")
                /\ q.row \in RowsWithOrderId(q.body.transaction_id)
                /\ DerivedStatus(q.body.status) = Str(Pending)
          /\ (Did(q, "update1.ok") /\ DerivedStatus(q.body.status) = Str(Pending)
                /\ q.pc # "sms")
             => SmsBy(q) # {}
          /\ Cardinality(SmsBy(q)) <= 1
    /\ \A q \in Known \ Webhooks : SmsBy(q) = {}

C6_Witness ==
    \E q \in Webhooks : SmsBy(q) # {} /\ Answered(q, 200, TRUE)

\* C7: every SMS carries '5 to 30 minutes' exactly if the Data Plan of the
\* stored record contains '(Express)', and '30 minutes to 4 hours' otherwise,
\* also when the record has no Data Plan.
C7_TimeframeFromStoredPlan ==
    \A i \in DOMAIN smsLog :
       LET plan == store[smsLog[i].row].dataPlan
           express == /\ plan.t = "string"
                      /\ Includes(plan.v, <<"(","E","x","p","r","e","s","s",")">>)
       IN  /\ smsLog[i].row \in RowsWithOrderId(smsLog[i].orderId)
           /\ smsLog[i].dataPlan = plan
           /\ smsLog[i].timeframe =
                 IF express THEN "5 to 30 minutes" ELSE "30 minutes to 4 hours"

C7_Witness ==
    \E i \in DOMAIN smsLog :
       /\ smsLog[i].timeframe = "5 to 30 minutes"
       /\ store[smsLog[i].row].dataPlan = PlanExpress

\* C8: a delivery with its four fields present whose lookup finds no record
\* for its Order ID is answered 200 with ok:false in the same step, and the
\* step changes no row, creates none and sends no SMS.
C8_UnknownOrderAcknowledged ==
    [][(/\ Arrives("webhook")
        /\ AllPresent(Arrived.body)
        /\ "find.ok" \in Range(Arrived.steps)
        /\ RowsWithOrderId(Arrived.body.transaction_id) = {})
       => /\ response' = Arrived
          /\ response'.code = 200
          /\ response'.ok = FALSE
          /\ UNCHANGED <<store, smsLog, writes, gwLog>>]_vars

C8_Witness ==
    \E q \in Webhooks :
       /\ Answered(q, 200, FALSE) /\ Did(q, "find.ok")
       /\ RowsWithOrderId(q.body.transaction_id) = {}

\* C9 as stated (granting that the lookup itself does not fail): a delivery
\* with a field missing or with an amount that is no number is answered 400,
\* writes no row and sends no SMS.
C9_Original ==
    \A q \in Webhooks :
       (~AllPresent(q.body) \/ (~NumericAmount(q.body) /\ ~Did(q, "find.error")))
       => /\ Answered(q, 400, FALSE)
          /\ WritesBy(q) = {} /\ SmsBy(q) = {}

\* C9 amended: a delivery with a field missing is answered 400 before any
\* downstream call.  A delivery with all four fields whose amount is no
\* number is answered in the step it arrives in: 500 if the lookup fails, 200
\* with ok:false if no record matches, 500 if its status is not a string, and
\* 400 otherwise.  In all these cases the step changes no row and sends no SMS.
C9_InvalidDeliveryChangesNothing ==
    [][(Arrives("webhook") /\ (~AllPresent(Arrived.body) \/ ~NumericAmount(Arrived.body)))
       => /\ response' = Arrived
          /\ response'.ok = FALSE
          /\ UNCHANGED <<store, smsLog, writes, gwLog>>
          /\ response'.code =
                IF ~AllPresent(Arrived.body) THEN 400
                ELSE IF "find.error" \in Range(Arrived.steps) THEN 500
                ELSE IF RowsWithOrderId(Arrived.body.transaction_id) = {} THEN 200
                ELSE IF Arrived.body.status.t # "string" THEN 500
                ELSE 400
          /\ ~AllPresent(Arrived.body) => Arrived.steps = <<>>]_vars

C9_Witness ==
    \E q \in Webhooks :
       /\ q.body.amount = Str(<<"a","b","c">>) /\ Did(q, "find.ok")
       /\ RowsWithOrderId(q.body.transaction_id) # {}
       /\ Answered(q, 400, FALSE)

-----------------------------------------------------------------------------
(* Check Status                                                            *)

\* C10: a check-status request whose lookup finds a record is answered 200
\* with the Status stored in that record at that moment, verbatim, so with
\* 'Pending' after a delivery stored 'Pending'; and a check-status request,
\* whatever its outcome, writes nothing and calls neither gateway nor SMS.
C10_CheckStatusReturnsStored ==
    [][Arrives("check")
       => /\ UNCHANGED <<store, smsLog, writes, gwLog>>
          /\ response' = Arrived
          /\ ("find.ok" \in Range(Arrived.steps)
                /\ RowsWithOrderId(Arrived.transaction_id) # {})
             => /\ response'.code = 200 /\ response'.ok = TRUE
                /\ response'.data.status
                      = StoredStatus(store[FirstRow(Arrived.transaction_id)])]_vars

\* a check-status request answered 'Pending' after a delivery stored it
C10_Witness ==
    /\ response.op = "check"
    /\ Answered(response, 200, TRUE)
    /\ response.data.status = Str(<<"P","e","n","d","i","n","g">>)
    /\ \E w \in writes :
          w.kind = "update1" /\ w.row = response.row /\ w.req < response.id

\* C11: a check-status or cancel request whose lookup finds no record for
\* its Order ID is answered 404 with ok:false in the step it arrives in, and
\* the step leaves the table as it is: no row created, none modified.
C11_UnknownOrderNotFound ==
    [][((Arrives("check") \/ Arrives("cancel"))
          /\ "find.ok" \in Range(Arrived.steps)
          /\ RowsWithOrderId(Arrived.transaction_id) = {})
       => /\ response' = Arrived
          /\ response'.code = 404
          /\ response'.ok = FALSE
          /\ UNCHANGED <<store, writes>>]_vars

C11_Witness ==
    /\ response.op = "cancel"
    /\ Answered(response, 404, FALSE) /\ Did(response, "find.ok")
    /\ RowsWithOrderId(response.transaction_id) = {}
    /\ WritesBy(response) = {}

-----------------------------------------------------------------------------
(* Cancel Transaction                                                      *)

\* the update of cancel request q is applied in this step
CancelUpdateBy(q) ==
    /\ q.op = "cancel"
    /\ ~Did(q, "update.ok")
    /\ "update.ok" \in Range(After(q).steps)

\* C12: when the update of a cancel request for an existing Order ID
\* succeeds, the Status stored in the record it found is 'Failed', whatever
\* it was before, and the request is answered 200 with ok:true.
C12_CancelStoresFailed ==
    [][\A q \in handlers :
          CancelUpdateBy(q)
          => /\ q.row \in RowsWithOrderId(q.transaction_id)
             /\ StoredStatus(store'[q.row]) = Str(<<"F","a","i","l","e","d">>)
             /\ response' = After(q)
             /\ response'.code = 200
             /\ response'.ok = TRUE]_vars

\* a cancel answered ok:true turned a record that was Pending into Failed
C12_Witness ==
    /\ response.op = "cancel"
    /\ Answered(response, 200, TRUE)
    /\ \E w \in WritesBy(response) :
          /\ w.kind = "cancel"
          /\ w.before \in {Str(Pending), SelectOption(Str(Pending))}
          /\ StoredStatus(store[w.row]) = Str(Failed)

-----------------------------------------------------------------------------
(* Status lifecycle                                                        *)

\* a cancel has set the Status of row i to 'Failed', and it still is
CancelledRow(i) ==
    /\ StoredStatus(store[i]) = Str(<<"F","a","i","l","e","d">>)
    /\ \E w \in writes : w.kind = "cancel" /\ w.row = i

\* C13 as stated: no step sets the Status of a record back to 'Initiated'
\* once it has left it, and no step changes the Status of a record that a
\* cancel has set to 'Failed'.
C13_StatusMovesForward ==
    [][\A i \in DOMAIN store :
          /\ StoredStatus(store[i]) # Str(<<"I","n","i","t","i","a","t","e","d">>)
             => StoredStatus(store'[i]) # Str(<<"I","n","i","t","i","a","t","e","d">>)
          /\ CancelledRow(i)
             => StoredStatus(store'[i]) = Str(<<"F","a","i","l","e","d">>)]_vars

-----------------------------------------------------------------------------
(* Repeated and concurrent deliveries                                      *)

\* SMS that went out for an Order ID
SentFor(tid) == {i \in DOMAIN smsLog : smsLog[i].orderId = tid /\ smsLog[i].sent}

\* C14: no delivery attempts more than one SMS; a delivery with status
\* 'success' that is answered ok:true has sent exactly one SMS of its own for
\* its Order ID, so k such deliveries in a row send k; and the send of a
\* delivery that has derived 'Pending' and completed its first update goes
\* out whatever the record's Notification Sent flag and Status are.
C14_NoDeduplication ==
    [][/\ \A n \in 1..nreq' :
             Cardinality({i \in DOMAIN smsLog' : smsLog'[i].req = n}) <= 1
       /\ (/\ Answers("webhook")
           /\ response'.code = 200 /\ response'.ok = TRUE
           /\ DerivedStatus(response'.body.status) = Str(<<"P","e","n","d","i","n","g">>))
          => Cardinality({i \in DOMAIN smsLog' :
                             /\ smsLog'[i].req = response'.id
                             /\ smsLog'[i].orderId = response'.body.transaction_id
                             /\ smsLog'[i].sent}) = 1
       /\ \A q \in handlers :
             (q.op = "webhook" /\ q.pc = "sms" /\ After(q).pc = "update2")
             => /\ Len(smsLog') = Len(smsLog) + 1
                /\ smsLog'[Len(smsLog')].req = q.id
                /\ smsLog'[Len(smsLog')].orderId = q.body.transaction_id
                /\ smsLog'[Len(smsLog')].sent]_vars

\* the second of two deliveries in a row for one order has sent its SMS,
\* although the record it read was already Pending and marked as notified
C14_Witness ==
    \E q \in handlers :
       /\ q.op = "webhook" /\ q.pc = "update2"
       /\ StoredStatus(q.record) = Str(Pending)
       /\ q.record.hubtelSent
       /\ Cardinality(SentFor(q.body.transaction_id)) = 2
       /\ \E i \in SentFor(q.body.transaction_id) : smsLog[i].req = q.id

-----------------------------------------------------------------------------
(* Notification Sent                                                       *)

\* delivery q's SMS send has returned successfully for row i
HasSentFor(q, i) ==
    /\ q.op = "webhook" /\ q.row = i
    /\ "sms.ok" \in Range(q.steps)
    /\ \E j \in DOMAIN smsLog :
          /\ smsLog[j].req = q.id /\ smsLog[j].sent
          /\ smsLog[j].orderId = store[i].orderId

\* C15: a step that sets Notification Sent on a record is a step of a
\* delivery whose SMS send had returned successfully before the step; and
\* after every step, each record with Notification Sent true has had a
\* successful SMS send for its Order ID.
C15_SentFlagOnlyAfterSend ==
    [][/\ \A i \in DOMAIN store :
             (~store[i].hubtelSent /\ store'[i].hubtelSent)
             => \E q \in handlers :
                   /\ HasSentFor(q, i)
                   /\ "update2.ok" \in Range(After(q).steps)
       /\ \A i \in DOMAIN store' :
             store'[i].hubtelSent
             => \E j \in DOMAIN smsLog' :
                   /\ smsLog'[j].sent
                   /\ smsLog'[j].row = i
                   /\ smsLog'[j].orderId = store'[i].orderId]_vars

C15_Witness ==
    \E i \in DOMAIN store :
       /\ store[i].hubtelSent
       /\ store[i].hubtelResponse # Undef
       /\ \E j \in DOMAIN smsLog : smsLog[j].sent /\ smsLog[j].row = i

-----------------------------------------------------------------------------
(* Identifiers                                                             *)

\* C16 as stated (granting that the record was created): the transaction_id
\* in the success response of an initiate request is the Order ID that the
\* request generated and stored, so a lookup by it finds the request's record.
C16_ReturnedIdIsOrderId ==
    \A q \in Starts :
       (Answered(q, 200, TRUE) /\ Did(q, "create.ok"))
       => /\ q.data.transaction_id = q.transaction_id
          /\ \E i \in RowsBy(q) :
                i \in RowsWithOrderId(q.data.transaction_id)

\* C17 as stated: every SMS of a delivery is addressed to the Customer Phone
\* stored on the record that the delivery's Order ID resolved to.
C17_SmsToStoredPhone ==
    \A i \in DOMAIN smsLog :
       smsLog[i].to = store[smsLog[i].row].phone

\* Order ID, Customer Phone, Data Recipient Number and Data Plan of a row
Identity(row) ==
    [orderId |-> row.orderId, phone |-> row.phone,
     recipient |-> row.recipient, dataPlan |-> row.dataPlan]

\* C18: a step that adds a row is the create step of an initiate request and
\* adds one row, at the end; no step removes a row; and no step changes the
\* Order ID, Customer Phone, Data Recipient Number or Data Plan of a row.
C18_RecordIdentityAndLifetime ==
    [][/\ Len(store') >= Len(store)
       /\ \A i \in DOMAIN store : Identity(store'[i]) = Identity(store[i])
       /\ Len(store') # Len(store)
          => /\ Len(store') = Len(store) + 1
             /\ \E q \in handlers :
                   /\ q.op = "start"
                   /\ "create.ok" \in Range(After(q).steps)
                   /\ store'[Len(store')].by = q.id]_vars

\* a delivery has updated the first row next to a row that an initiate
\* request created, and the first row is still the order it was
C18_Witness ==
    /\ Len(store) = 2
    /\ \E w \in writes :
          /\ w.kind = "update1" /\ w.row = 1
          /\ store[1].bulkclix = [webhook |-> BaseWebhookBody(Str(<<"T","9">>))]
          /\ \E p \in {PlanExpress, Undef} :
                Identity(store[1]) = Identity(PriorRow(variant, p))

-----------------------------------------------------------------------------
(* Concurrent deliveries                                                   *)

\* C19: deliveries are not kept apart.  A delivery with four fields, a
\* numeric amount and a string status whose lookup finds a record goes on to
\* its first update with the record as it read it, whatever other deliveries
\* are being handled; and a delivery that derived 'Pending' goes from its
\* first update on to its send, whatever was sent for the order before.
C19_DeliveriesNotExcluded ==
    [][/\ (/\ Arrives("webhook")
           /\ AllPresent(Arrived.body) /\ NumericAmount(Arrived.body)
           /\ Arrived.body.status.t = "string"
           /\ "find.ok" \in Range(Arrived.steps)
           /\ RowsWithOrderId(Arrived.body.transaction_id) # {})
          => /\ Arrived \in handlers'
             /\ Arrived.pc = "update1"
             /\ Arrived.record = store[FirstRow(Arrived.body.transaction_id)]
       /\ \A q \in handlers :
             (FirstUpdateBy(q)
                /\ DerivedStatus(q.body.status) = Str(<<"P","e","n","d","i","n","g">>))
             => /\ After(q) \in handlers'
                /\ After(q).pc = "sms"]_vars

\* the record as it is before any delivery has updated it
NotYetUpdated(record) ==
    /\ StoredStatus(record) = Str(Initiated)
    /\ "webhook" \notin DOMAIN record.bulkclix
    /\ ~record.hubtelSent

\* two deliveries with status 'success' for one order, both of which read
\* the record before either updated it, have both sent their SMS
C19_Witness ==
    \E q1, q2 \in handlers :
       /\ q1.id # q2.id
       /\ q1.op = "webhook" /\ q2.op = "webhook"
       /\ q1.body.transaction_id = q2.body.transaction_id
       /\ q1.row = q2.row
       /\ NotYetUpdated(q1.record) /\ NotYetUpdated(q2.record)
       /\ q1.orderStatus = Str(Pending) /\ q2.orderStatus = Str(Pending)
       /\ Did(q1, "sms.ok") /\ Did(q2, "sms.ok")
       /\ Cardinality(SentFor(q1.body.transaction_id)) = 2

-----------------------------------------------------------------------------
(* Partial failure of a delivery                                           *)

\* the SMS send or the second update of delivery q fails in this step
FailsAfterFirstUpdate(q) ==
    /\ q.op = "webhook"
    /\ q.pc \in {"sms", "update2"}
    /\ \/ "sms.error" \in Range(After(q).steps)
       \/ "update2.error" \in Range(After(q).steps)

\* C20: when the SMS send or the second update of a delivery fails, its
\* first update had succeeded, the delivery is answered 500 with ok:false,
\* and the step writes nothing: the Status, Amount and gateway snapshot of
\* the record stay as they are, which is as the first update wrote them if
\* no other request has written the record; a delivery whose send failed
\* has made no second update, so it has not set Notification Sent.
C20_PartialFailureKeepsFirstUpdate ==
    [][\A q \in handlers :
          FailsAfterFirstUpdate(q)
          => /\ Did(q, "update1.ok")
             /\ response' = After(q)
             /\ response'.code = 500 /\ response'.ok = FALSE
             /\ UNCHANGED <<store, writes>>
             /\ ({w \in writes : w.row = q.row} = WritesBy(q))
                => /\ StoredStatus(store'[q.row]) = DerivedStatus(q.body.status)
                   /\ store'[q.row].amount = q.amount
                   /\ store'[q.row].bulkclix = [webhook |-> q.body]
             /\ "sms.error" \in Range(After(q).steps)
                => /\ \A w \in WritesBy(q) : w.kind = "update1"
                   /\ \A j \in DOMAIN smsLog' :
                         smsLog'[j].req = q.id => ~smsLog'[j].sent]_vars

\* a delivery whose send failed was answered 500; the record is Pending with
\* the delivery's amount and snapshot, and is not marked as notified
C20_Witness ==
    /\ response.op = "webhook"
    /\ Answered(response, 500, FALSE)
    /\ Did(response, "update1.ok") /\ Did(response, "sms.error")
    /\ StoredStatus(store[response.row]) = Str(Pending)
    /\ store[response.row].amount = Num(25)
    /\ store[response.row].bulkclix = [webhook |-> response.body]
    /\ ~store[response.row].hubtelSent

-----------------------------------------------------------------------------
(* Cancel as a local mutation                                              *)

\* C21: no step of a cancel request calls the payment gateway or sends an
\* SMS; the step in which it arrives writes nothing; and its update changes
\* one row, the one it found, in Status and (Airtable variant only) Notes,
\* and nothing else: Amount, the gateway snapshot, the notification response
\* and Notification Sent stay as they are.
C21_CancelIsLocal ==
    [][/\ Arrives("cancel") => UNCHANGED <<store, writes, gwLog, smsLog>>
       /\ \A q \in handlers :
             (q.op = "cancel" /\ After(q) # q)
             => /\ UNCHANGED <<gwLog, smsLog>>
                /\ Len(store') = Len(store)
                /\ \A i \in DOMAIN store : i # q.row => store'[i] = store[i]
                /\ [store'[q.row] EXCEPT !.status = store[q.row].status,
                                         !.notes = store[q.row].notes] = store[q.row]
                /\ variant = "Baserow" => store'[q.row].notes = store[q.row].notes]_vars

\* a cancel answered ok:true has set a record to Failed that a delivery had
\* updated and marked as notified, and the delivery's values are still there
C21_Witness ==
    /\ response.op = "cancel"
    /\ Answered(response, 200, TRUE)
    /\ LET row == store[response.row]
       IN  /\ StoredStatus(row) = Str(Failed)
           /\ row.hubtelSent
           /\ row.hubtelResponse # Undef
           /\ row.amount = Num(10)
           /\ row.bulkclix = [webhook |-> BaseWebhookBody(Str(<<"T","9">>))]

\* C22 as stated: once a cancel has answered ok:true, then as long as no
\* request has been received after it (so every delivery still running was
\* in progress while the cancel ran), the Status of its record is 'Failed'
\* after every step and no step sends an SMS for its order.
C22_CancelHoldsAgainstInFlightDelivery ==
    [][\A w \in writes :
          (w.kind = "cancel" /\ w.req = nreq')
          => /\ StoredStatus(store'[w.row]) = Str(<<"F","a","i","l","e","d">>)
             /\ \A j \in DOMAIN smsLog' \ DOMAIN smsLog :
                   smsLog'[j].row # w.row]_vars

====
